---- MODULE Spec2Model ----
(***************************************************************************)
(* Model of spotify-lyrics-proxy (src/src/main.rs): the axum handler       *)
(* `lyrics`, the global CLIENT mutex, and SpotifyClient's token cache,     *)
(* token exchange (get_access_token) and lyrics fetch (get_lyrics).        *)
(*                                                                         *)
(* One action is one run of a handler between two suspension points        *)
(* (`.await`s that can actually suspend): the code between them is         *)
(* synchronous and runs without interleaving on the task.                  *)
(***************************************************************************)
EXTENDS Integers, Sequences, FiniteSets, TLC

\* ------------------------------------------------------------------ bounds
MaxReqs == 2        \* inbound requests that may be in the system
MaxCookies == 2     \* sp_dc cookies that config.toml may list
MaxTime == 1        \* the clock runs over 0..MaxTime (milliseconds)
MaxTok == 2         \* distinct accessToken strings the token endpoint mints

Reqs == 1..MaxReqs
Cookies == 1..MaxCookies
NoReq == 0
NoCookie == 0

\* ------------------------------------------------------- serde_json::Value
\* A field looked up in a parsed JSON body: Value::get(name) is None when the
\* field is absent; as_str() is Some only for a JSON string, as_u64() only for
\* a non-negative integer.  val identifies the string or is the number.
Absent == [kind |-> "absent", val |-> 0]
JsonStr(v) == [kind |-> "string", val |-> v]
JsonU64(v) == [kind |-> "u64", val |-> v]
JsonOther == [kind |-> "other", val |-> 0]

get_is_some(f) == f.kind # "absent"
as_str_is_some(f) == f.kind = "string"
as_u64_is_some(f) == f.kind = "u64"

\* ------------------------------------------------------ struct AccessToken
AccessTokens == [token : 1..MaxTok, expires_at : 0..(MaxTime + 1)]
NoToken == [token |-> 0, expires_at |-> 0]

\* --------------------------------------------------------- upstream replies
\* What the token endpoint can answer to one GET: the send fails, the body
\* cannot be read, the body is not JSON, or a JSON body whose two fields are
\* present or not, of the right type or not.  The HTTP status is not looked at.
TokenFieldValues == {Absent, JsonOther} \cup {JsonStr(t) : t \in 1..MaxTok}
ExpiryFieldValues ==
    {Absent, JsonOther, JsonStr(1)} \cup {JsonU64(e) : e \in 0..(MaxTime + 1)}
TokenReplies ==
    [kind : {"send_err", "text_err", "not_json"},
     accessToken : {Absent}, accessTokenExpirationTimestampMs : {Absent}]
    \cup
    [kind : {"json"},
     accessToken : TokenFieldValues,
     accessTokenExpirationTimestampMs : ExpiryFieldValues]

\* What the lyrics endpoint can answer: the send fails, or a response with a
\* status and a body that is JSON (with or without a lyrics field) or not.
Statuses == {200, 404}
Payloads == {1, 2}
LyricsFieldValues == {Absent} \cup {JsonU64(p) : p \in Payloads}
LyricsReplies ==
    [kind : {"send_err"}, status : {0}, body : {"none"}, lyrics : {Absent}]
    \cup
    [kind : {"response"}, status : Statuses, body : {"not_json"}, lyrics : {Absent}]
    \cup
    [kind : {"response"}, status : Statuses, body : {"json"}, lyrics : LyricsFieldValues]

\* ------------------------------------------------------------ anyhow::Error
\* An error is its Display text.  The texts of reqwest and serde_json errors
\* are derived from the upstream exchange (url, parse position).
ErrHeaderMissing == "Authorization header not found"
ErrInvalidKey == "Invalid API key"
ErrHeaderToStr == "failed to convert header to a str"
ErrNoCookies == "No cookies provided"
ErrGeneric == "Something went wrong"
ErrTokenSend == "error sending request for url (TOKEN_URL)"
ErrTokenText == "error decoding response body (TOKEN_URL)"
ErrTokenJson == "expected value at line 1 column 1"
ErrLyricsSend == "error sending request for url (LYRICS_URL/track_id)"
ErrLyricsJson == "error decoding response body: expected value at line 1 column 1"

\* Result<T, anyhow::Error>, or a panic unwinding out of the call.
Ok(v) == [tag |-> "ok", val |-> v, err |-> ""]
Err(e) == [tag |-> "err", val |-> 0, err |-> e]
Panic == [tag |-> "panic", val |-> 0, err |-> "called Option::unwrap() on a None value"]

\* -------------------------------------------------------------- HTTP answer
\* What the inbound caller receives: a status, a text body, a JSON body.
NoResponse == [status |-> 0, text |-> "", json |-> 0]
ConnectionClosed == [status |-> -1, text |-> "", json |-> 0]

VARIABLES
    cookies,        \* CONFIG.cookies, as a set
    api_keys,       \* CONFIG.api_keys: [some, keys]
    server,         \* "init" | "serving" | "exited"
    now,            \* chrono::Utc::now().timestamp_millis()
    access_tokens,  \* CLIENT's SpotifyClient.access_tokens: cookie -> AccessToken
    lock_holder,    \* the request holding CLIENT's MutexGuard, or NoReq
    lock_waiters,   \* requests suspended in CLIENT.lock().await, in FIFO order
    pc,             \* per request: where its handler is
    cookie,         \* per request: the cookie get_lyrics chose
    access_token,   \* per request: the AccessToken get_lyrics sends
    response,       \* per request: what the inbound caller got
    hist            \* per request: what the request observed and did (history)

vars == <<cookies, api_keys, server, now, access_tokens, lock_holder,
          lock_waiters, pc, cookie, access_token, response, hist>>

\* ------------------------------------------------------------------ inputs
\* The Authorization header of an inbound request.
NoHeader == [present |-> FALSE, ascii |-> TRUE, scheme |-> "", key |-> ""]
Headers ==
    {NoHeader}
    \cup [present : {TRUE}, ascii : {TRUE}, scheme : {"Bearer ", "Basic "},
          key : {"k1", "bad"}]
    \cup [present : {TRUE}, ascii : {FALSE}, scheme : {"Bearer "}, key : {"k1"}]

\* CONFIG.api_keys: Option<Vec<String>>: absent, an empty list, a list.
ApiKeyConfigs ==
    {[some |-> FALSE, keys |-> {}], [some |-> TRUE, keys |-> {}],
     [some |-> TRUE, keys |-> {"k1"}]}

\* CONFIG.cookies: Vec<String>: an empty list, or the first n cookies.
CookieConfigs == {1..n : n \in 0..MaxCookies}

\* What a request has observed and done so far (history, not program state).
\* checked_at, before and exchanged describe the call in progress and are
\* cleared when get_lyrics returns, like the locals cookie and access_token.
NoHist ==
    [waited |-> FALSE,         \* it found the mutex held and queued for it
     lookup |-> "none",        \* the cache lookup: "miss" | "expired" | "valid"
     checked_at |-> 0,         \* the value of now the lookup compared with
     before |-> <<>>,          \* access_tokens when get_lyrics began
     exchanges |-> 0,          \* token exchanges this request sent
     fetches |-> 0,            \* lyrics fetches this request sent
     exchanged |-> NoToken,    \* the token and expiry its exchange was answered
     token_reply |-> "none",   \* the reply its exchange got, or "abandoned"
     status |-> 0,             \* the HTTP status its fetch got
     body |-> "none"]          \* "not_json" | "no_lyrics" | "lyrics"

Init ==
    /\ cookies \in CookieConfigs
    /\ api_keys \in ApiKeyConfigs
    /\ server = "init"
    /\ now = 0
    /\ access_tokens = <<>>
    /\ lock_holder = NoReq
    /\ lock_waiters = <<>>
    /\ pc = [r \in Reqs |-> "idle"]
    /\ cookie = [r \in Reqs |-> NoCookie]
    /\ access_token = [r \in Reqs |-> NoToken]
    /\ response = [r \in Reqs |-> NoResponse]
    /\ hist = [r \in Reqs |-> NoHist]

\* ---------------------------------------------------------------- responses
\* impl IntoResponse for AppError: 500 and "Something went wrong: {error}".
into_response(err) ==
    [status |-> 500, text |-> "Something went wrong: " \o err, json |-> 0]

\* Ok(Json(lyrics)): 200 and the JSON value.
json_response(v) == [status |-> 200, text |-> "", json |-> v]

\* -------------------------------------------------------------------- main
\* Faulty variant: main without the ensure!, serving whatever the cookies.
main_unchecked ==
    /\ server = "init"
    /\ server' = "serving"
    /\ UNCHANGED <<cookies, api_keys, now, access_tokens, lock_holder,
                   lock_waiters, pc, cookie, access_token, response, hist>>

\* main: ensure!(CONFIG.cookies.len() > 0), then serve.
main ==
    /\ server = "init"
    /\ server' = IF Cardinality(cookies) > 0 THEN "serving" ELSE "exited"
    /\ UNCHANGED <<cookies, api_keys, now, access_tokens, lock_holder,
                   lock_waiters, pc, cookie, access_token, response, hist>>

\* The wall clock advances.
Tick ==
    /\ now < MaxTime
    /\ now' = now + 1
    /\ UNCHANGED <<cookies, api_keys, server, access_tokens, lock_holder,
                   lock_waiters, pc, cookie, access_token, response, hist>>

\* ------------------------------------------------------------ CLIENT mutex
\* Faulty variant: a lock that is never found held (each request with its own client).
is_locked_never(holder) == FALSE

\* Mutex::lock finds the mutex held when some request has the guard.
is_locked(holder) == holder # NoReq

\* Faulty variant: a guard that is not released when its holder panics.
Unlock_leaked_by_panic(r, pcr, resp) ==
    /\ lock_holder' = IF pcr = "panicked" THEN lock_holder
                      ELSE IF lock_waiters = <<>> THEN NoReq ELSE Head(lock_waiters)
    /\ lock_waiters' = IF pcr = "panicked" \/ lock_waiters = <<>> THEN lock_waiters
                       ELSE Tail(lock_waiters)
    /\ pc' = [q \in Reqs |->
                IF q = r THEN pcr
                ELSE IF pcr # "panicked" /\ lock_waiters # <<>> /\ q = Head(lock_waiters)
                    THEN "granted"
                ELSE pc[q]]
    /\ response' = [response EXCEPT ![r] = resp]

\* The MutexGuard of request r is dropped as r's handler ends with program
\* counter pcr and response resp.  tokio's Mutex is fair: the permit goes to
\* the first waiter, which is then woken.
Unlock(r, pcr, resp) ==
    /\ lock_holder' = IF lock_waiters = <<>> THEN NoReq ELSE Head(lock_waiters)
    /\ lock_waiters' = IF lock_waiters = <<>> THEN <<>> ELSE Tail(lock_waiters)
    /\ pc' = [q \in Reqs |->
                IF q = r THEN pcr
                ELSE IF lock_waiters # <<>> /\ q = Head(lock_waiters) THEN "granted"
                ELSE pc[q]]
    /\ response' = [response EXCEPT ![r] = resp]

\* The history of a request whose get_lyrics call has ended.
ended(h) == [h EXCEPT !.checked_at = 0, !.before = <<>>, !.exchanged = NoToken]
\* ------------------------------------------------------------- token cache
\* Faulty variant: an insert that keeps an existing entry (entry().or_insert()).
insert_or_keep(map, k, v) ==
    [c \in (DOMAIN map) \cup {k} |-> IF c \in DOMAIN map THEN map[c] ELSE v]

\* Faulty variant: one token slot shared by all cookies.
insert_everywhere(map, k, v) ==
    [c \in (DOMAIN map) \cup {k} \cup cookies |-> v]

\* HashMap::insert: the entry of key k is created or overwritten.
insert(map, k, v) ==
    [c \in (DOMAIN map) \cup {k} |-> IF c = k THEN v ELSE map[c]]

\* Faulty variant: the comparison reversed (expires_at < now).
lookup_reversed(map, c, t) ==
    IF c \notin DOMAIN map THEN "miss"
    ELSE IF map[c].expires_at < t THEN "valid"
    ELSE "expired"

\* Faulty variant: the comparison made inclusive (expires_at >= now).
lookup_inclusive(map, c, t) ==
    IF c \notin DOMAIN map THEN "miss"
    ELSE IF map[c].expires_at >= t THEN "valid"
    ELSE "expired"

\* get_lyrics' match on self.access_tokens.get(cookie): the cached token is
\* used only when present with expires_at > now.
lookup(map, c, t) ==
    IF c \notin DOMAIN map THEN "miss"
    ELSE IF map[c].expires_at > t THEN "valid"
    ELSE "expired"

\* Faulty variant: the None arm goes on to the fetch without an exchange.
first_call_skips_miss(found) == IF found = "expired" THEN "exchange" ELSE "fetch"

\* The upstream call get_lyrics sends first: the arms of its match.
first_call(found) == IF found = "valid" THEN "fetch" ELSE "exchange"

\* Faulty variant: the token is stored as soon as it is read, before the expiry is.
get_access_token_half_written(map, c, reply) ==
    IF reply.kind = "send_err" THEN [result |-> Err(ErrTokenSend), map |-> map]
    ELSE IF reply.kind = "text_err" THEN [result |-> Err(ErrTokenText), map |-> map]
    ELSE IF reply.kind = "not_json" THEN [result |-> Err(ErrTokenJson), map |-> map]
    ELSE IF ~get_is_some(reply.accessToken) \/ ~as_str_is_some(reply.accessToken)
        THEN [result |-> Panic, map |-> map]
    ELSE IF ~get_is_some(reply.accessTokenExpirationTimestampMs)
            \/ ~as_u64_is_some(reply.accessTokenExpirationTimestampMs)
        THEN [result |-> Panic,
              map |-> insert(map, c, [token |-> reply.accessToken.val,
                                      expires_at |-> 0])]
    ELSE [result |-> Ok(0),
          map |-> insert(map, c,
                     [token |-> reply.accessToken.val,
                      expires_at |-> reply.accessTokenExpirationTimestampMs.val])]

\* Faulty variant: a failed exchange evicts the entry of its cookie.
get_access_token_evicting(map, c, reply) ==
    IF /\ reply.kind = "json"
       /\ as_str_is_some(reply.accessToken)
       /\ as_u64_is_some(reply.accessTokenExpirationTimestampMs)
    THEN [result |-> Ok(0),
          map |-> insert(map, c,
                     [token |-> reply.accessToken.val,
                      expires_at |-> reply.accessTokenExpirationTimestampMs.val])]
    ELSE [result |-> IF reply.kind = "send_err" THEN Err(ErrTokenSend)
                     ELSE IF reply.kind = "text_err" THEN Err(ErrTokenText)
                     ELSE IF reply.kind = "not_json" THEN Err(ErrTokenJson)
                     ELSE Panic,
          map |-> [k \in (DOMAIN map) \ {c} |-> map[k]]]

\* get_access_token after the reply arrived: the result and the cache.  The
\* AccessToken is built (both unwrap chains) before insert is called.
get_access_token(map, c, reply) ==
    IF reply.kind = "send_err" THEN [result |-> Err(ErrTokenSend), map |-> map]
    ELSE IF reply.kind = "text_err" THEN [result |-> Err(ErrTokenText), map |-> map]
    ELSE IF reply.kind = "not_json" THEN [result |-> Err(ErrTokenJson), map |-> map]
    ELSE IF ~get_is_some(reply.accessToken) \/ ~as_str_is_some(reply.accessToken)
        THEN [result |-> Panic, map |-> map]
    ELSE IF ~get_is_some(reply.accessTokenExpirationTimestampMs)
            \/ ~as_u64_is_some(reply.accessTokenExpirationTimestampMs)
        THEN [result |-> Panic, map |-> map]
    ELSE [result |-> Ok(0),
          map |-> insert(map, c,
                     [token |-> reply.accessToken.val,
                      expires_at |-> reply.accessTokenExpirationTimestampMs.val])]

\* Faulty variant: the error of a non-200 reply names the status.
get_lyrics_result_names_status(reply) ==
    IF reply.kind = "send_err" THEN Err(ErrLyricsSend)
    ELSE IF reply.status = 200 THEN
        IF reply.body = "not_json" THEN Err(ErrLyricsJson)
        ELSE IF ~get_is_some(reply.lyrics) THEN Panic
        ELSE Ok(reply.lyrics.val)
    ELSE Err("Something went wrong: upstream answered 404")

\* Faulty variant: a 200 reply gives the whole parsed body, not its lyrics field.
get_lyrics_result_whole_body(reply) ==
    IF reply.kind = "send_err" THEN Err(ErrLyricsSend)
    ELSE IF reply.status = 200 THEN
        IF reply.body = "not_json" THEN Err(ErrLyricsJson)
        ELSE IF ~get_is_some(reply.lyrics) THEN Panic
        ELSE Ok(0)
    ELSE Err(ErrGeneric)

\* get_lyrics after the lyrics reply arrived: the match on the status.
get_lyrics_result(reply) ==
    IF reply.kind = "send_err" THEN Err(ErrLyricsSend)
    ELSE IF reply.status = 200 THEN
        IF reply.body = "not_json" THEN Err(ErrLyricsJson)
        ELSE IF ~get_is_some(reply.lyrics) THEN Panic
        ELSE Ok(reply.lyrics.val)
    ELSE Err(ErrGeneric)

\* Faulty variant: any Bearer header passes, whatever its key.
authorize_any_bearer(keys, h) ==
    IF keys.some THEN
        IF ~h.present THEN Err(ErrHeaderMissing)
        ELSE IF ~h.ascii THEN Err(ErrHeaderToStr)
        ELSE IF h.scheme # "Bearer " THEN Err(ErrHeaderMissing)
        ELSE Ok(0)
    ELSE Ok(0)

\* lyrics' check of the Authorization header against CONFIG.api_keys.
authorize(keys, h) ==
    IF keys.some THEN
        IF ~h.present THEN Err(ErrHeaderMissing)
        ELSE IF ~h.ascii THEN Err(ErrHeaderToStr)
        ELSE IF h.scheme # "Bearer " THEN Err(ErrHeaderMissing)
        ELSE IF h.key \notin keys.keys THEN Err(ErrInvalidKey)
        ELSE Ok(0)
    ELSE Ok(0)

\* ------------------------------------------------------------- get_lyrics
\* get_lyrics from its start to its first suspension, run by request r with
\* the guard in hand: choose a cookie, look the token up, and send either the
\* token exchange (miss or expired) or the lyrics fetch (valid).
get_lyrics_begin(r) ==
    IF cookies = {} THEN
        /\ Unlock(r, "done", into_response(ErrNoCookies))
        /\ UNCHANGED <<cookie, access_token, hist, access_tokens>>
    ELSE
        \E c \in cookies :
            LET found == lookup(access_tokens, c, now)
                h == [hist[r] EXCEPT !.lookup = found, !.checked_at = now,
                                     !.before = access_tokens]
            IN  /\ cookie' = [cookie EXCEPT ![r] = c]
                /\ lock_holder' = r
                /\ UNCHANGED <<lock_waiters, response, access_tokens>>
                /\ access_token' =
                       IF found = "valid"
                       THEN [access_token EXCEPT ![r] = access_tokens[c]]
                       ELSE access_token
                /\ IF first_call(found) = "fetch" THEN
                       /\ pc' = [pc EXCEPT ![r] = "fetching"]
                       /\ hist' = [hist EXCEPT ![r] = [h EXCEPT !.fetches = @ + 1]]
                   ELSE
                       /\ pc' = [pc EXCEPT ![r] = "exchanging"]
                       /\ hist' = [hist EXCEPT ![r] = [h EXCEPT !.exchanges = @ + 1]]

\* The handler `lyrics` from the arrival of request r to its first
\* suspension: the API key check, then CLIENT.lock(): with the mutex free the
\* guard is returned at once and get_lyrics begins; otherwise r waits.
lyrics(r, headers) ==
    /\ server = "serving"
    /\ pc[r] = "idle"
    /\ \A q \in Reqs : q < r => pc[q] # "idle"   \* requests are numbered as they arrive
    /\ LET auth == authorize(api_keys, headers)
       IN  IF auth.tag = "err" THEN
               /\ pc' = [pc EXCEPT ![r] = "done"]
               /\ response' = [response EXCEPT ![r] = into_response(auth.err)]
               /\ UNCHANGED <<lock_holder, lock_waiters, cookie, access_token,
                              hist, access_tokens>>
           ELSE IF ~is_locked(lock_holder) THEN
               get_lyrics_begin(r)
           ELSE
               /\ pc' = [pc EXCEPT ![r] = "waiting"]
               /\ lock_waiters' = Append(lock_waiters, r)
               /\ hist' = [hist EXCEPT ![r].waited = TRUE]
               /\ UNCHANGED <<lock_holder, response, cookie, access_token,
                              access_tokens>>
    /\ UNCHANGED <<cookies, api_keys, server, now>>

\* A waiter that was handed the mutex resumes: lock().await returns the guard
\* and get_lyrics begins.
lock_acquired(r) ==
    /\ pc[r] = "granted"
    /\ lock_holder = r
    /\ get_lyrics_begin(r)
    /\ UNCHANGED <<cookies, api_keys, server, now>>

\* The token and expiry a well-formed token reply carries.
replied_token(reply) ==
    [token |-> reply.accessToken.val,
     expires_at |-> reply.accessTokenExpirationTimestampMs.val]

\* The class of a token reply, as recorded in the history: a JSON body with
\* a string accessToken and an integer accessTokenExpirationTimestampMs is
\* "ok", any other JSON body is "malformed".
token_reply_class(reply) ==
    IF reply.kind # "json" THEN reply.kind
    ELSE IF /\ reply.accessToken.kind = "string"
            /\ reply.accessTokenExpirationTimestampMs.kind = "u64"
         THEN "ok"
    ELSE "malformed"

\* The token endpoint answers request r's exchange: get_access_token ends,
\* and on Ok get_lyrics takes self.access_tokens.get(cookie).unwrap() and
\* sends the lyrics fetch with it.
token_reply(r, reply) ==
    /\ pc[r] = "exchanging"
    /\ LET out == get_access_token(access_tokens, cookie[r], reply)
           h == [hist[r] EXCEPT !.token_reply = token_reply_class(reply)]
       IN  /\ access_tokens' = out.map
           /\ IF out.result.tag = "ok" THEN
                  /\ access_token' = [access_token EXCEPT ![r] = out.map[cookie[r]]]
                  /\ pc' = [pc EXCEPT ![r] = "fetching"]
                  /\ hist' = [hist EXCEPT ![r] =
                                [h EXCEPT !.exchanged = replied_token(reply),
                                          !.fetches = @ + 1]]
                  /\ UNCHANGED <<lock_holder, lock_waiters, response>>
              ELSE
                  /\ IF out.result.tag = "err"
                        THEN Unlock(r, "done", into_response(out.result.err))
                        ELSE Unlock(r, "panicked", ConnectionClosed)
                  /\ hist' = [hist EXCEPT ![r] = ended(h)]
                  /\ UNCHANGED access_token
    /\ UNCHANGED <<cookies, api_keys, server, now, cookie>>

\* The class of a lyrics reply body, as recorded in the history.
lyrics_body_class(reply) ==
    IF reply.kind = "send_err" THEN "none"
    ELSE IF reply.body = "not_json" THEN "not_json"
    ELSE IF get_is_some(reply.lyrics) THEN "lyrics" ELSE "no_lyrics"

\* The lyrics endpoint answers request r's fetch: get_lyrics ends, the guard
\* is dropped and the handler answers the inbound caller.
lyrics_reply(r, reply) ==
    /\ pc[r] = "fetching"
    /\ LET res == get_lyrics_result(reply)
       IN  /\ hist' = [hist EXCEPT ![r] =
                         ended([@ EXCEPT !.status = reply.status,
                                         !.body = lyrics_body_class(reply)])]
           /\ IF res.tag = "ok" THEN Unlock(r, "done", json_response(res.val))
              ELSE IF res.tag = "err" THEN Unlock(r, "done", into_response(res.err))
              ELSE Unlock(r, "panicked", ConnectionClosed)
           /\ access_token' = [access_token EXCEPT ![r] = NoToken]
    /\ UNCHANGED <<cookies, api_keys, server, now, access_tokens, cookie>>

\* A sequence without its element x.
RECURSIVE without(_, _)
without(q, x) ==
    IF q = <<>> THEN <<>>
    ELSE IF Head(q) = x THEN without(Tail(q), x)
    ELSE <<Head(q)>> \o without(Tail(q), x)

\* The inbound connection of request r closes while its handler is suspended:
\* axum::serve drops the handler's future at the `.await` it is suspended on.
\* A future waiting in lock() leaves the queue; one that has the guard (or
\* was handed the permit) gives it back; the upstream call in flight is
\* dropped with it and nobody is answered.
connection_dropped(r) ==
    /\ pc[r] \in {"waiting", "granted", "exchanging", "fetching"}
    /\ IF pc[r] = "waiting" THEN
           /\ lock_waiters' = without(lock_waiters, r)
           /\ pc' = [pc EXCEPT ![r] = "dropped"]
           /\ UNCHANGED <<lock_holder, response>>
       ELSE Unlock(r, "dropped", NoResponse)
    /\ hist' = [hist EXCEPT ![r] =
                  ended([@ EXCEPT !.token_reply =
                            IF pc[r] = "exchanging" THEN "abandoned" ELSE @])]
    /\ access_token' = [access_token EXCEPT ![r] = NoToken]
    /\ UNCHANGED <<cookies, api_keys, server, now, access_tokens, cookie>>

Next ==
    \/ main
    \/ Tick
    \/ \E r \in Reqs, h \in Headers : lyrics(r, h)
    \/ \E r \in Reqs : lock_acquired(r)
    \/ \E r \in Reqs, reply \in TokenReplies : token_reply(r, reply)
    \/ \E r \in Reqs, reply \in LyricsReplies : lyrics_reply(r, reply)
    \/ \E r \in Reqs : connection_dropped(r)

Spec == Init /\ [][Next]_vars

\* Spec with the scheduling the runtime gives: a task that was handed the
\* mutex is woken and polled, and every upstream call that stays in flight is
\* answered (a reply or a transport error).  Nothing obliges a clock tick, a
\* new inbound request or the loss of an inbound connection.
FairSpec ==
    /\ Spec
    /\ \A r \in Reqs :
          /\ WF_vars(lock_acquired(r))
          /\ WF_vars(\E reply \in TokenReplies : token_reply(r, reply))
          /\ WF_vars(\E reply \in LyricsReplies : lyrics_reply(r, reply))

\* ==================================================================== claims
\* Request r is inside get_lyrics, suspended on an upstream call.
InFlight(r) == pc[r] \in {"exchanging", "fetching"}

\* Request r's handler has ended (answered, or unwound by a panic).
Ended(r) == pc[r] \in {"done", "panicked"}

\* The token exchanges sent upstream for cookie c by requests 1..n.
RECURSIVE ExchangesUpTo(_, _)
ExchangesUpTo(c, n) ==
    IF n = 0 THEN 0
    ELSE ExchangesUpTo(c, n - 1) + (IF cookie[n] = c THEN hist[n].exchanges ELSE 0)

ExchangesFor(c) == ExchangesUpTo(c, MaxReqs)

\* All the requests chose cookie c (so all have begun get_lyrics).
AllUse(c) == \A r \in Reqs : cookie[r] = c

\* The calls were concurrent: each but the first found the mutex held.
Concurrent == \A r \in Reqs : r > 1 => hist[r].waited

\* Request r is in flight and found no entry for its cookie / an entry with
\* expires_at > now / an entry with expires_at <= now, now as it read it.
FoundNone(r) == InFlight(r) /\ cookie[r] \notin DOMAIN hist[r].before
FoundValid(r) ==
    /\ InFlight(r)
    /\ cookie[r] \in DOMAIN hist[r].before
    /\ hist[r].before[cookie[r]].expires_at > hist[r].checked_at
FoundExpired(r) ==
    /\ InFlight(r)
    /\ cookie[r] \in DOMAIN hist[r].before
    /\ hist[r].before[cookie[r]].expires_at <= hist[r].checked_at

\* ---------------------------------------------------------------------- C1
\* C1 as stated: once N concurrent calls that all chose the same cookie,
\* starting from an empty cache, have ended, exactly one token exchange for
\* that cookie was sent upstream.
C1_ExactlyOneExchange ==
    \A c \in Cookies :
        (AllUse(c) /\ Concurrent /\ \A r \in Reqs : Ended(r))
        => ExchangesFor(c) = 1

\* C1 amended: N calls that all chose the same cookie, starting from an empty
\* cache, send exactly one token exchange for it provided no exchange failed
\* or was abandoned and no call found the cached token expired; the calls
\* after the first then find the cached token.
C1_OneExchangeUnlessFailedOrExpired ==
    \A c \in Cookies :
        (/\ AllUse(c)
         /\ \A r \in Reqs : hist[r].token_reply \in {"none", "ok"}
         /\ \A r \in Reqs : hist[r].lookup # "expired")
        => /\ ExchangesFor(c) = 1
           /\ hist[1].exchanges = 1
           /\ \A r \in Reqs : r > 1 => hist[r].lookup = "valid"

\* Two calls were concurrent (the second queued on the mutex), both chose the
\* same cookie and ended, and one exchange was sent.
C1_Witness ==
    \E c \in Cookies :
        /\ AllUse(c)
        /\ \A r \in Reqs : Ended(r)
        /\ Concurrent
        /\ \A r \in Reqs : hist[r].token_reply \in {"none", "ok"}
        /\ \A r \in Reqs : hist[r].lookup # "expired"
        /\ ExchangesFor(c) = 1

\* ---------------------------------------------------------------------- C2
\* C2: at most one upstream call (token exchange or lyrics fetch, for any
\* cookie) is in flight, and a request with an upstream call in flight holds
\* the client mutex; a request that waits for the mutex does not hold it.
C2_OneUpstreamCallInFlight ==
    /\ Cardinality({r \in Reqs : InFlight(r)}) <= 1
    /\ \A r \in Reqs : InFlight(r) => lock_holder = r
    /\ \A r \in Reqs : pc[r] = "waiting" => (lock_holder # r /\ lock_holder # NoReq)

\* One request has its exchange in flight while another waits for the mutex.
C2_Witness ==
    \E r, q \in Reqs : pc[r] = "exchanging" /\ pc[q] = "waiting"

\* ---------------------------------------------------------------------- C3
\* C3: a request that chose a cookie with no cache entry sends exactly one
\* token exchange for it, and sends its lyrics fetch only after that exchange
\* was answered with a token, which is the token the fetch carries; it has
\* sent exactly one exchange when it returns.
C3_MissExchangesOnce ==
    [][\A r \in Reqs :
         FoundNone(r) =>
            /\ hist[r].exchanges = 1
            /\ pc[r] = "exchanging" => hist[r].fetches = 0
            /\ pc[r] = "fetching" =>
                  /\ hist[r].token_reply = "ok"
                  /\ hist[r].exchanged \in AccessTokens
                  /\ access_token[r] = hist[r].exchanged
            /\ hist'[r].exchanges = 1]_vars

\* A request that found no entry has exchanged once and is fetching.
C3_Witness ==
    \E r \in Reqs : FoundNone(r) /\ pc[r] = "fetching" /\ hist[r].exchanges = 1

\* ---------------------------------------------------------------------- C4
\* C4: a request that chose a cookie whose cached token has expires_at > now
\* sends the lyrics fetch with that cached token, sends no exchange, and the
\* cache is the same when it began, while it runs and when it returns.
C4_ValidTokenReused ==
    [][\A r \in Reqs :
         FoundValid(r) =>
            /\ pc[r] = "fetching"
            /\ hist[r].exchanges = 0
            /\ hist[r].fetches = 1
            /\ access_token[r] = hist[r].before[cookie[r]]
            /\ access_tokens = hist[r].before
            /\ access_tokens' = hist[r].before
            /\ hist'[r].exchanges = 0]_vars

\* A request is fetching with a cached token that a previous request stored.
C4_Witness ==
    \E r \in Reqs :
        FoundValid(r) /\ pc[r] = "fetching" /\ access_token[r] \in AccessTokens

\* ---------------------------------------------------------------------- C5
\* C5 as stated: a request that chose a cookie whose cached token has
\* expires_at <= now sends exactly one exchange, and when it has returned the
\* cache holds the token of that exchange for the cookie.
C5_ExpiredAlwaysReplaced ==
    [][\A r \in Reqs :
         FoundExpired(r) =>
            /\ hist[r].exchanges = 1
            /\ Ended(r)' =>
                  /\ hist[r].exchanged \in AccessTokens
                  /\ access_tokens'[cookie[r]] = hist[r].exchanged]_vars

\* C5 amended: a request that chose a cookie whose cached token has
\* expires_at <= now (equality included) sends exactly one exchange; when the
\* exchange is answered with a token the cache holds that token for the
\* cookie from then on and the fetch carries it; when the exchange fails the
\* request ends and the cache still holds the stale entry.
C5_ExpiredReplacedOnSuccess ==
    [][\A r \in Reqs :
         FoundExpired(r) =>
            /\ hist[r].exchanges = 1
            /\ hist'[r].exchanges = 1
            /\ pc[r] = "exchanging" =>
                  /\ access_tokens = hist[r].before
                  /\ Ended(r)' => access_tokens' = hist[r].before
                  /\ pc'[r] = "fetching" =>
                        access_tokens'[cookie[r]] = hist'[r].exchanged
            /\ pc[r] = "fetching" =>
                  /\ hist[r].exchanged \in AccessTokens
                  /\ access_tokens[cookie[r]] = hist[r].exchanged
                  /\ access_token[r] = hist[r].exchanged
                  /\ access_tokens'[cookie[r]] = hist[r].exchanged]_vars

\* A request found a token with expires_at = now, exchanged it, and the cache
\* holds another token than the stale one.
C5_Witness ==
    \E r \in Reqs :
        /\ FoundExpired(r)
        /\ hist[r].before[cookie[r]].expires_at = hist[r].checked_at
        /\ pc[r] = "fetching"
        /\ access_tokens[cookie[r]] # hist[r].before[cookie[r]]

\* ---------------------------------------------------------------------- C6
\* C6 as stated: the token of every lyrics fetch has expires_at > now, now as
\* the request read it.
C6_FetchTokenUnexpired ==
    \A r \in Reqs :
        pc[r] = "fetching" => access_token[r].expires_at > hist[r].checked_at

\* C6 amended: the token of every lyrics fetch is either the cached token,
\* found with expires_at > now, or the token the request's own exchange was
\* just answered, whatever its expiry.
C6_FetchTokenCachedOrExchanged ==
    \A r \in Reqs :
        pc[r] = "fetching" =>
            \/ /\ FoundValid(r)
               /\ hist[r].exchanges = 0
               /\ access_token[r] = hist[r].before[cookie[r]]
               /\ access_token[r].expires_at > hist[r].checked_at
            \/ /\ ~FoundValid(r)
               /\ hist[r].exchanges = 1
               /\ hist[r].exchanged \in AccessTokens
               /\ access_token[r] = hist[r].exchanged

\* A fetch is in flight with a token whose exchange returned it expired.
C6_Witness ==
    \E r \in Reqs :
        /\ pc[r] = "fetching"
        /\ hist[r].exchanges = 1
        /\ access_token[r] \in AccessTokens
        /\ access_token[r].expires_at <= hist[r].checked_at

\* ---------------------------------------------------------------------- C7
\* C7: a token exchange answered with a JSON body that lacks accessToken or
\* accessTokenExpirationTimestampMs (or has them with the wrong type) ends
\* the request with an error response, not with a crash of the handler, and
\* leaves the cache as it was.
C7_MalformedTokenReplyIsError ==
    [][\A r \in Reqs :
         (pc[r] = "exchanging" /\ hist'[r].token_reply = "malformed") =>
            /\ pc'[r] = "done"
            /\ response'[r].status = 500
            /\ access_tokens' = access_tokens]_vars

\* ---------------------------------------------------------------------- C8
\* Request r, in flight, ends in this step without a 200 answer.
Fails(r) == InFlight(r) /\ Ended(r)' /\ response'[r].status # 200

\* C8: when a request fails at any step, every cache entry is its value from
\* before the request or the complete (token, expiry) pair its one exchange
\* was answered, no entry is lost, the server keeps serving, and the mutex is
\* released: free, or handed to the first waiter, which is woken.
C8_FailureLeavesCacheConsistent ==
    [][\A r \in Reqs :
         Fails(r) =>
            /\ DOMAIN hist[r].before \subseteq DOMAIN access_tokens'
            /\ \A c \in DOMAIN access_tokens' :
                  \/ /\ c \in DOMAIN hist[r].before
                     /\ access_tokens'[c] = hist[r].before[c]
                  \/ /\ c = cookie[r]
                     /\ hist[r].exchanged \in AccessTokens
                     /\ access_tokens'[c] = hist[r].exchanged
            /\ server' = "serving"
            /\ lock_holder' # r
            /\ lock_waiters = <<>> => lock_holder' = NoReq
            /\ lock_waiters # <<>> =>
                  /\ lock_holder' = Head(lock_waiters)
                  /\ pc'[Head(lock_waiters)] = "granted"]_vars

\* A request panicked on a malformed token reply, and the request that
\* waited behind it then ran against the cache and was answered its lyrics.
C8_Witness ==
    \E r, q \in Reqs :
        /\ pc[r] = "panicked"
        /\ hist[r].token_reply = "malformed"
        /\ hist[q].waited
        /\ pc[q] = "done"
        /\ response[q].status = 200

\* ---------------------------------------------------------------------- C9
\* C9: a lyrics fetch answered 200 with a JSON body that has no lyrics field
\* ends the request with the error response of a non-200 status, not with a
\* crash of the handler.
C9_NoLyricsFieldIsError ==
    \A r \in Reqs :
        (hist[r].status = 200 /\ hist[r].body = "no_lyrics") =>
            /\ pc[r] = "done"
            /\ response[r] = into_response(ErrGeneric)

\* --------------------------------------------------------------------- C10
\* The answer that carries nothing of the upstream reply.
OpaqueError ==
    [status |-> 500, text |-> "Something went wrong: Something went wrong",
     json |-> 0]

\* C10: a request whose lyrics fetch was answered 404 ends with an error and
\* the inbound caller gets the opaque error: status 500 and a fixed text,
\* whatever the body of the 404 reply.
C10_NotFoundIsOpaque ==
    \A r \in Reqs :
        hist[r].status = 404 => (pc[r] = "done" /\ response[r] = OpaqueError)

\* A fetch was answered 404 with a JSON body and the caller got status 500.
C10_Witness ==
    \E r \in Reqs :
        /\ hist[r].status = 404
        /\ hist[r].body = "lyrics"
        /\ response[r].status = 500

\* --------------------------------------------------------------------- C11
\* Request r went into get_lyrics and was answered an error.
FailedWithError(r) ==
    pc[r] = "done" /\ cookie[r] # NoCookie /\ response[r].status # 200

\* C11: any two requests that failed inside get_lyrics (exchange transport
\* error, unparsable token reply, fetch transport error, non-200 status) were
\* given the same answer, the opaque error, with no text derived from the
\* upstream exchange.
C11_FailuresCollapseToOpaque ==
    \A r, q \in Reqs :
        (FailedWithError(r) /\ FailedWithError(q)) =>
            (response[r] = response[q] /\ response[r] = OpaqueError)

\* --------------------------------------------------------------------- C12
\* C12 as stated: a request with an upstream call in flight loses the mutex
\* only by running to completion (get_lyrics returned, or panicked).
C12_LockHeldToCompletion ==
    [][\A r \in Reqs :
         (InFlight(r) /\ lock_holder = r /\ lock_holder' # r) => Ended(r)']_vars

\* C12 amended: a request with an upstream call in flight keeps the mutex
\* from one upstream call to the next, and loses it only when its handler
\* ends: get_lyrics returned or panicked, or the handler's future was dropped
\* with its inbound connection; a dropped request leaves the cache as it was.
C12_LockHeldUntilHandlerEnds ==
    [][\A r \in Reqs :
         InFlight(r) =>
            /\ lock_holder = r
            /\ InFlight(r)' => lock_holder' = r
            /\ lock_holder' # r => (Ended(r)' \/ pc'[r] = "dropped")
            /\ pc'[r] = "dropped" => access_tokens' = access_tokens]_vars

\* A request was dropped after it sent its exchange, and another request has
\* the mutex and an upstream call in flight.
C12_Witness ==
    \E r, q \in Reqs :
        /\ pc[r] = "dropped"
        /\ hist[r].exchanges = 1
        /\ InFlight(q)
        /\ lock_holder = q

\* --------------------------------------------------------------------- C13
\* The exchange of request r was answered and failed: transport error,
\* unreadable body, body that is not JSON, or JSON without the two fields.
ExchangeFailed(r) ==
    hist[r].token_reply \in {"send_err", "text_err", "not_json", "malformed"}

\* C13: a request sends at most one token exchange and at most one lyrics
\* fetch, and a request whose exchange failed sent no fetch and was answered
\* an error.
C13_NoRetryFailureIsError ==
    \A r \in Reqs :
        /\ hist[r].exchanges <= 1
        /\ hist[r].fetches <= 1
        /\ ExchangeFailed(r) =>
              /\ hist[r].fetches = 0
              /\ pc[r] = "done"
              /\ response[r].status = 500

\* --------------------------------------------------------------------- C14
\* C14: with an empty cookie list the server never serves: no request is
\* taken in, the mutex is never held or waited for, no upstream call is sent,
\* and (whatever the cookies) no request is ever answered get_lyrics' own
\* "No cookies provided" error.
C14_NoCookiesNoService ==
    /\ cookies = {} =>
          /\ server # "serving"
          /\ lock_holder = NoReq
          /\ lock_waiters = <<>>
          /\ access_tokens = <<>>
          /\ \A r \in Reqs :
                /\ pc[r] = "idle"
                /\ response[r] = NoResponse
                /\ hist[r] = NoHist
    /\ \A r \in Reqs : response[r] # into_response(ErrNoCookies)

\* main ran with an empty cookie list and the process exited.
C14_Witness == cookies = {} /\ server = "exited"

\* --------------------------------------------------------------------- C15
\* C15: with a single cookie and an empty cache, a request whose exchange was
\* answered a token that expires in the future and whose fetch is answered
\* 200 with a JSON body that has a lyrics field is answered 200 with exactly
\* the value of that field, having sent one exchange and one fetch.
C15_ReturnsLyricsField ==
    [][\A r \in Reqs, reply \in LyricsReplies :
         ( /\ lyrics_reply(r, reply)
           /\ Cardinality(cookies) = 1
           /\ hist[r].before = <<>>
           /\ hist[r].exchanged \in AccessTokens
           /\ hist[r].exchanged.expires_at > hist[r].checked_at
           /\ reply.kind = "response"
           /\ reply.status = 200
           /\ reply.body = "json"
           /\ get_is_some(reply.lyrics) ) =>
            /\ pc'[r] = "done"
            /\ response'[r] = json_response(reply.lyrics.val)
            /\ hist'[r].exchanges = 1
            /\ hist'[r].fetches = 1]_vars

\* With a single cookie, a request that missed the cache sent one exchange
\* and one fetch and was answered the lyrics value 2.
C15_Witness ==
    \E r \in Reqs :
        /\ Cardinality(cookies) = 1
        /\ pc[r] = "done"
        /\ hist[r].lookup = "miss"
        /\ hist[r].token_reply = "ok"
        /\ hist[r].exchanges = 1
        /\ hist[r].fetches = 1
        /\ response[r] = json_response(2)

\* --------------------------------------------------------------------- C16
\* C16: in every step the set of cookies with a cache entry only grows and
\* stays within the configured cookies, and an entry is created or changed
\* only by the request whose exchange for that cookie was answered a
\* well-formed reply, to the (token, expiry) pair of that reply.
C16_CacheNeverShrinks ==
    [][/\ DOMAIN access_tokens \subseteq DOMAIN access_tokens'
       /\ DOMAIN access_tokens' \subseteq cookies
       /\ \A c \in DOMAIN access_tokens' :
             (c \notin DOMAIN access_tokens \/ access_tokens'[c] # access_tokens[c]) =>
                \E r \in Reqs :
                    /\ pc[r] = "exchanging"
                    /\ cookie[r] = c
                    /\ hist'[r].token_reply = "ok"
                    /\ access_tokens'[c] = hist'[r].exchanged]_vars

\* A request found the entry of its cookie expired, crashed on a malformed
\* token reply, and the entry is still there.
C16_Witness ==
    \E r \in Reqs :
        /\ pc[r] = "panicked"
        /\ hist[r].lookup = "expired"
        /\ hist[r].token_reply = "malformed"
        /\ cookie[r] \in DOMAIN access_tokens

\* --------------------------------------------------------------------- C17
\* Request r was admitted: it went past the API key check to CLIENT.lock().
Admitted(r) == pc[r] \in {"waiting", "exchanging", "fetching"}

\* The configuration main warns about: api_keys absent, or an empty list.
NoApiKey == ~api_keys.some \/ api_keys.keys = {}

\* C17: when no API key is configured (api_keys absent, or an empty list), a
\* request that arrives without an Authorization header is admitted and
\* goes on to get_lyrics.
C17_NoApiKeyAdmitsAnyone ==
    [][\A r \in Reqs :
         (NoApiKey /\ lyrics(r, NoHeader)) => Admitted(r)']_vars

\* --------------------------------------------------------------------- C18
\* C18: tokens never cross cookies.  A step changes the cache only under the
\* cookie of the request whose exchange is answered, and only to the pair
\* that answer carries; the entries of every other cookie stay as they are;
\* and a request with its fetch in flight sends the entry of its own cookie.
C18_TokensNeverCross ==
    [][/\ \A c \in Cookies :
             \/ /\ c \in DOMAIN access_tokens <=> c \in DOMAIN access_tokens'
                /\ c \in DOMAIN access_tokens => access_tokens'[c] = access_tokens[c]
             \/ \E r \in Reqs, reply \in TokenReplies :
                    /\ token_reply(r, reply)
                    /\ cookie[r] = c
                    /\ token_reply_class(reply) = "ok"
                    /\ c \in DOMAIN access_tokens'
                    /\ access_tokens'[c] = replied_token(reply)
       /\ \A r \in Reqs :
             pc'[r] = "fetching" =>
                /\ cookie'[r] \in DOMAIN access_tokens'
                /\ access_token'[r] = access_tokens'[cookie'[r]]]_vars

\* The two cookies have entries with different tokens, and a request has its
\* fetch in flight with the token of its own cookie.
C18_Witness ==
    /\ DOMAIN access_tokens = Cookies
    /\ access_tokens[1].token # access_tokens[2].token
    /\ \E r \in Reqs :
          /\ pc[r] = "fetching"
          /\ hist[r].token_reply = "ok"
          /\ access_token[r] = access_tokens[cookie[r]]

\* --------------------------------------------------------------------- C20
\* Header h is `Bearer <key>` with <key> one of the configured keys.
ValidBearer(h) ==
    h.present /\ h.ascii /\ h.scheme = "Bearer " /\ h.key \in api_keys.keys

\* C20: with a non-empty api_keys list, a request is admitted to
\* CLIENT.lock() only with a header `Bearer <key>`, <key> in the list; a
\* request with any other header (none, another scheme, an unknown key) is
\* answered an error at once: the mutex and its queue, the cache and the
\* counts of upstream calls stay as they are.
C20_OnlyValidKeyAdmitted ==
    [][\A r \in Reqs, h \in Headers :
         (lyrics(r, h) /\ api_keys.some /\ api_keys.keys # {}) =>
            /\ Admitted(r)' => ValidBearer(h)
            /\ ~ValidBearer(h) =>
                  /\ pc'[r] = "done"
                  /\ response'[r].status = 500
                  /\ UNCHANGED <<lock_holder, lock_waiters, access_tokens,
                                 cookie, hist>>]_vars

\* With a key configured, one request was answered Invalid API key having
\* sent nothing upstream while another has the mutex and a call in flight.
C20_Witness ==
    /\ api_keys.keys # {}
    /\ \E r, q \in Reqs :
          /\ response[r] = into_response(ErrInvalidKey)
          /\ hist[r] = NoHist
          /\ InFlight(q)
          /\ lock_holder = q

\* --------------------------------------------------------------------- C19
\* The handler of request r is over and no longer has or awaits the mutex.
Released(r) ==
    /\ lock_holder # r
    /\ \A i \in 1..Len(lock_waiters) : lock_waiters[i] # r

\* C19 as stated: every request that waits for the mutex eventually has it
\* and finishes (answered, or crashed), and a finished request has released
\* the mutex.
C19_WaiterAcquiresAndFinishes ==
    /\ \A r \in Reqs : (pc[r] = "waiting") ~> Ended(r)
    /\ [](\A r \in Reqs : Ended(r) => Released(r))

\* C19 amended: every request that waits for the mutex eventually has it and
\* finishes unless its inbound connection is lost first; no request holds
\* the mutex forever; and a request that finished, crashed or was dropped
\* has released the mutex and left its queue.
C19_WaiterFinishesUnlessDropped ==
    /\ \A r \in Reqs : (pc[r] = "waiting") ~> (Ended(r) \/ pc[r] = "dropped")
    /\ \A r \in Reqs : (lock_holder = r) ~> (lock_holder # r)
    /\ [](\A r \in Reqs : (Ended(r) \/ pc[r] = "dropped") => Released(r))

\* A request crashed on a 200 reply without a lyrics field, and the request
\* that waited behind it has finished; the mutex is free.
C19_Witness ==
    \E r, q \in Reqs :
        /\ pc[q] = "panicked"
        /\ hist[q].body = "no_lyrics"
        /\ hist[r].waited
        /\ Ended(r)
        /\ lock_holder = NoReq

====
